---- MODULE Spec2Model ----
(***************************************************************************)
(* A model of the koinos-assess catalog application: the items API of the  *)
(* backend (list with search and pagination, item by id, create), its      *)
(* error middleware, the pagination view-model of the Items page, and the  *)
(* fetch lifecycle of the Items and ItemDetail components.                 *)
(*                                                                         *)
(* JavaScript values that change type along the way (query parameters are  *)
(* strings, their defaults are numbers) are modelled as tagged records:    *)
(* Num(n), Str(s) with s a sequence of one-character strings, and Undef.   *)
(***************************************************************************)
EXTENDS Integers, Sequences, FiniteSets, TLC

VARIABLES
    file,       \* backend: the parsed content of data/items.json
    clock,      \* backend: Date.now()
    posts,      \* backend: the POST /api/items handlers in flight
    req,        \* backend: the request answered last
    resp,       \* backend: the response sent last
    pl,         \* Items page: the arguments and the result of getPageList
    view,       \* frontend: the page component mounted: "items", "detail", "none"
    inst,       \* frontend: the number of the component instance mounted
    itemsState, \* Items: [page, loading]
    provider,   \* DataProvider: [items, total]
    detailState, \* ItemDetail: [id, item, loading, error, notFound]
    reqs,       \* frontend: the fetches issued, each with its AbortController
    calls       \* frontend: the state setters called so far, and when

backVars == <<file, clock, posts, req, resp>>
pageVars == <<pl>>
uiVars == <<view, inst, itemsState, provider, detailState, reqs, calls>>
vars == <<file, clock, posts, req, resp, pl,
          view, inst, itemsState, provider, detailState, reqs, calls>>

\* ------------------------------------------------------------------ bounds

MaxItems == 2       \* length of the collections the list query is asked on
MaxPage == 2        \* largest page asked for
MaxLimit == 2       \* largest limit asked for
MaxTotalPages == 20 \* largest number of pages the pagination is rendered for
MaxPosts == 2       \* POST /api/items requests in one behaviour
MaxTicks == 2       \* milliseconds the clock advances in one behaviour
MaxRequests == 2    \* fetches the frontend issues in one behaviour

\* -------------------------------------------------------------- JS values

Num(n) == [t |-> "num", n |-> n]
Str(s) == [t |-> "str", s |-> s]
Undef == [t |-> "undef"]
Null == [t |-> "null"]
Arr(a) == [t |-> "arr", a |-> a]
Obj(o) == [t |-> "obj", o |-> o]
Text(m) == [t |-> "text", m |-> m]     \* a message, its letters left aside

DigitChars == <<"0", "1", "2", "3", "4", "5", "6", "7", "8", "9">>

DigitVal(c) == (CHOOSE i \in 1..Len(DigitChars) : DigitChars[i] = c) - 1

RECURSIVE DecValue(_)
DecValue(s) ==
    IF s = <<>> THEN 0
    ELSE DecValue(SubSeq(s, 1, Len(s) - 1)) * Len(DigitChars) + DigitVal(s[Len(s)])

RECURSIVE DecString(_)
\* String(n) for a non-negative integer
DecString(n) ==
    IF n < Len(DigitChars) THEN <<DigitChars[n + 1]>>
    ELSE DecString(n \div Len(DigitChars)) \o <<DigitChars[(n % Len(DigitChars)) + 1]>>

\* ToNumber, the conversion the arithmetic operators - and * apply
ToNumber(x) == IF x.t = "num" THEN x.n ELSE DecValue(x.s)

\* parseInt: the argument is converted to a string and its digits are read
ParseInt(x) == IF x.t = "num" THEN DecValue(DecString(x.n)) ELSE DecValue(x.s)

\* ToBoolean: undefined, null, '' and 0 are falsy
Truthy(x) ==
    CASE x.t = "str" -> x.s # <<>>
      [] x.t = "text" -> x.m # ""
      [] x.t = "num" -> x.n # 0
      [] x.t \in {"arr", "obj"} -> TRUE
      [] OTHER -> FALSE

\* typeof
TypeOf(x) ==
    CASE x.t \in {"str", "text"} -> "string"
      [] x.t = "num" -> "number"
      [] x.t = "undef" -> "undefined"
      [] OTHER -> "object"

\* Math.min, Math.max
Min(a, b) == IF a < b THEN a ELSE b
Max(a, b) == IF a > b THEN a ELSE b

\* ------------------------------------------------------------------ strings

LowerOf(c) == CASE c = "A" -> "a" [] c = "B" -> "b" [] OTHER -> c

\* String.prototype.toLowerCase
toLowerCase(s) == [i \in 1..Len(s) |-> LowerOf(s[i])]

\* String.prototype.includes
includes(s, t) ==
    \E i \in 0..(Len(s) - Len(t)) : SubSeq(s, i + 1, i + Len(t)) = t

\* Array.prototype.slice(start, end) for 0 <= start
\* a slice that takes the element at end as well
sliceThroughEnd(a, start, end) ==
    LET hi == IF end + 1 < Len(a) THEN end + 1 ELSE Len(a)
    IN  IF start >= hi THEN <<>> ELSE SubSeq(a, start + 1, hi)

slice(a, start, end) ==
    LET hi == IF end < Len(a) THEN end ELSE Len(a)
    IN  IF start >= hi THEN <<>> ELSE SubSeq(a, start + 1, hi)

\* ------------------------------------------------------- the list query

\* the items the collections are made of: names and categories over the
\* letters a, A, b, B, so that a term can match a category and not the name
Names == {<<"a">>, <<"A", "b">>, <<"B">>}
Categories == {<<"a">>, <<"b">>}
Terms == {<<>>, <<"A">>, <<"b">>, <<"a", "B">>}

Item(id, name, category, price) ==
    [id |-> id, name |-> name, category |-> category, price |-> price]

\* collections of n items, the item at position i with id i and price 10 * i
RECURSIVE CollectionsOfLen(_)
CollectionsOfLen(n) ==
    IF n = 0 THEN {<<>>}
    ELSE {Append(c, Item(n, nm, cat, 10 * n)) :
            c \in CollectionsOfLen(n - 1), nm \in Names, cat \in Categories}

Collections == UNION {CollectionsOfLen(n) : n \in 0..MaxItems}

DefaultLimit == 10
DefaultPage == 1

\* a filter that compares the name, lower-cased, with q as typed
MatchesQueryAsTyped(item, q) == includes(toLowerCase(item.name), q.s)

\* the callback of results.filter
MatchesQuery(item, q) == includes(toLowerCase(item.name), toLowerCase(q.s))

RECURSIVE FilterByName(_, _)
\* results.filter(item => item.name.toLowerCase().includes(q.toLowerCase()))
FilterByName(results, q) ==
    IF results = <<>> THEN <<>>
    ELSE LET rest == FilterByName(Tail(results), q)
         IN  IF MatchesQuery(Head(results), q) THEN <<Head(results)>> \o rest ELSE rest

\* if (q) { results = results.filter(...) }
SearchResults(data, q) == IF Truthy(q) THEN FilterByName(data, q) ELSE data

\* a start index counting pages from 0
StartIndexFromZero(page, limit) == ToNumber(page) * ToNumber(limit)

StartIndex(page, limit) == (ToNumber(page) - 1) * ToNumber(limit)

EndIndex(startIndex, limit) == startIndex + ParseInt(limit)

\* router.get('/'): the body of the 200 response
ListBody(data, query) ==
    LET limit == IF query.limit = Undef THEN Num(DefaultLimit) ELSE query.limit
        page == IF query.page = Undef THEN Num(DefaultPage) ELSE query.page
        results == SearchResults(data, query.q)
        startIndex == StartIndex(page, limit)
        endIndex == EndIndex(startIndex, limit)
    IN  [total |-> Len(results),
         page |-> ParseInt(page),
         limit |-> ParseInt(limit),
         data |-> slice(results, startIndex, endIndex)]

NoRequest == [route |-> "none"]
NoResponse == [status |-> 0]

\* the frontend before the application is opened
UiIdle ==
    /\ view = "none"
    /\ inst = 0
    /\ itemsState = <<>>
    /\ provider = <<>>
    /\ detailState = <<>>
    /\ reqs = <<>>
    /\ calls = {}

\* the query strings a client sends to ask for page p with limit l: the
\* decimal string, or nothing when the value asked for is the default
PageParams(p) == {Str(DecString(p))} \cup (IF p = DefaultPage THEN {Undef} ELSE {})
LimitParams(l) == {Str(DecString(l))} \cup (IF l = DefaultLimit THEN {Undef} ELSE {})
TermParams == {Undef} \cup {Str(q) : q \in Terms}

\* GET /api/items?limit=&page=&q= ; asked is what the client meant
ListItems(query, asked) ==
    /\ req' = [route |-> "list", query |-> query, asked |-> asked, read |-> file]
    /\ resp' = [status |-> 200, body |-> ListBody(file, query)]
    /\ UNCHANGED <<file, clock, posts, pl, uiVars>>

InitQuery ==
    /\ file \in Collections
    /\ clock = 0
    /\ posts = <<>>
    /\ req = NoRequest
    /\ resp = NoResponse
    /\ pl = <<>>
    /\ UiIdle

NextQuery ==
    \E q \in TermParams, p \in 1..MaxPage, l \in (1..MaxLimit) \cup {DefaultLimit} :
        \E page \in PageParams(p), limit \in LimitParams(l) :
            ListItems([q |-> q, page |-> page, limit |-> limit], [page |-> p, limit |-> l])

SpecQuery == InitQuery /\ [][NextQuery]_vars

\* ------------------------------------------------------------ C1 and C3

\* name contains the term q once the case of both is ignored, stated letter
\* by letter; a term left out or empty is contained in every name
ContainsIgnoringCase(name, q) ==
    \/ q = Undef
    \/ /\ q # Undef
       /\ \E i \in 0..(Len(name) - Len(q.s)) :
            \A j \in 1..Len(q.s) : LowerOf(name[i + j]) = LowerOf(q.s[j])

KeptPositions(coll, q) == {i \in 1..Len(coll) : ContainsIgnoringCase(coll[i].name, q)}

\* C1: the list endpoint answers 200 with the page and limit asked for and
\* with data.length = min(limit, max(0, total - (page-1)*limit)), total the
\* number of items passing the filter; a page past the end has empty data.
C1_PageLength ==
    req.route = "list" =>
        LET total == Cardinality(KeptPositions(req.read, req.query.q))
            page == req.asked.page
            limit == req.asked.limit
        IN  /\ resp.status = 200
            /\ DOMAIN resp.body = {"total", "page", "limit", "data"}
            /\ resp.body.total = total
            /\ resp.body.page = page
            /\ resp.body.limit = limit
            /\ Len(resp.body.data) = Min(limit, Max(0, total - (page - 1) * limit))
            /\ ((page - 1) * limit >= total => resp.body.data = <<>>)

\* a page past the end of a non-empty result was asked for and answered
C1_Witness ==
    /\ req.route = "list"
    /\ resp.body.total > 0
    /\ (req.asked.page - 1) * req.asked.limit >= resp.body.total
    /\ resp.body.data = <<>>

\* C3: the query keeps exactly the items whose name contains q, case
\* ignored (category, price and id play no part, no q keeps all), and total
\* counts the kept items whatever page and limit are.
C3_NameFilter ==
    req.route = "list" =>
        LET kept == KeptPositions(req.read, req.query.q)
        IN  /\ resp.body.total = Cardinality(kept)
            /\ \A k \in 1..Len(resp.body.data) :
                  \E i \in kept : resp.body.data[k] = req.read[i]
            /\ (req.asked.page = 1 /\ req.asked.limit >= Cardinality(kept)
                  => \A i \in kept :
                        \E k \in 1..Len(resp.body.data) : resp.body.data[k] = req.read[i])
            /\ (~Truthy(req.query.q) => resp.body.total = Len(req.read))

\* the term A kept an item named a and dropped one whose category is a
C3_Witness ==
    /\ req.route = "list"
    /\ req.query.q = Str(<<"A">>)
    /\ \E k \in 1..Len(resp.body.data) : resp.body.data[k].name = <<"a">>
    /\ \E i \in 1..Len(req.read) :
          /\ req.read[i].category = <<"a">>
          /\ \A k \in 1..Len(resp.body.data) : resp.body.data[k] # req.read[i]

\* ------------------------------------------- the pagination view-model

Page(n) == [page |-> n]
LeftEllipsis == [ellipsis |-> "left-ellipsis"]
RightEllipsis == [ellipsis |-> "right-ellipsis"]

\* the visible page count for a window width
VisibleFor(w) ==
    IF w < 540 THEN 1
    ELSE IF w < 900 THEN 3
    ELSE IF w < 1200 THEN 5
    ELSE 7

Widths == {539, 540, 899, 900, 1199, 1200}

\* a page list numbered from 0
AllPagesFromZero(totalPages) == [i \in 1..totalPages |-> Page(i - 1)]

\* Array.from({ length: totalPages }, (_, i) => i + 1)
AllPages(totalPages) == [i \in 1..totalPages |-> Page(i)]

\* a window whose left end is not moved back once right is cut at the end
PageWindowCut(totalPages, current, visible) ==
    LET left == Max(2, current - (visible \div 2))
        right == Min(totalPages - 1, left + visible - 1)
    IN  [left |-> left, right |-> right]

\* the window [left, right] of page numbers around current
PageWindow(totalPages, current, visible) ==
    LET left0 == Max(2, current - (visible \div 2))
        right == Min(totalPages - 1, left0 + visible - 1)
        left == Max(2, right - visible + 1)
    IN  [left |-> left, right |-> right]

getPageList(totalPages, current, visible) ==
    IF totalPages <= visible + 2 THEN AllPages(totalPages)
    ELSE LET w == PageWindow(totalPages, current, visible)
         IN  <<Page(1)>>
             \o (IF w.left > 2 THEN <<LeftEllipsis>> ELSE <<>>)
             \o [i \in 1..(w.right - w.left + 1) |-> Page(w.left + i - 1)]
             \o (IF w.right < totalPages - 1 THEN <<RightEllipsis>> ELSE <<>>)
             \o <<Page(totalPages)>>

\* the pagination nav as rendered for the state (page, visibleCount)
Rendered(totalPages, page, visibleCount) ==
    [totalPages |-> totalPages, page |-> page, visibleCount |-> visibleCount,
     pages |-> getPageList(totalPages, page, visibleCount)]

\* goToPage(p): out of range is ignored
goToPage(p) ==
    /\ pl' = IF p < 1 \/ p > pl.totalPages THEN pl
             ELSE Rendered(pl.totalPages, p, pl.visibleCount)
    /\ UNCHANGED <<backVars, uiVars>>

\* the previous button, disabled on page 1
Previous ==
    /\ pl.page # 1
    /\ goToPage(pl.page - 1)

\* the next button, disabled on the last page
NextPage ==
    /\ pl.page # pl.totalPages
    /\ goToPage(pl.page + 1)

\* one of the page number buttons
ClickPage(k) ==
    /\ k \in DOMAIN pl.pages
    /\ "page" \in DOMAIN pl.pages[k]
    /\ goToPage(pl.pages[k].page)

\* the resize listener
onResize(w) ==
    /\ pl' = Rendered(pl.totalPages, pl.page, VisibleFor(w))
    /\ UNCHANGED <<backVars, uiVars>>

InitPages ==
    /\ file = <<>>
    /\ clock = 0
    /\ posts = <<>>
    /\ req = NoRequest
    /\ resp = NoResponse
    /\ \E totalPages \in 1..MaxTotalPages, w \in Widths :
          pl = Rendered(totalPages, 1, VisibleFor(w))
    /\ UiIdle

NextPages ==
    \/ Previous
    \/ NextPage
    \/ \E k \in 1..(MaxTotalPages + 1) : ClickPage(k)
    \/ \E w \in Widths : onResize(w)

SpecPages == InitPages /\ [][NextPages]_vars

\* ------------------------------------------------------------ C4 and C5

PageNumbers(ps) == {ps[k].page : k \in {j \in DOMAIN ps : "page" \in DOMAIN ps[j]}}

\* C4: for totalPages > visible + 2 the list is page 1, a left ellipsis iff
\* the window starts after page 2, a window of exactly `visible` consecutive
\* pages within 2..totalPages-1, a right ellipsis iff the window ends before
\* totalPages-1, then totalPages; the page numbers increase strictly and the
\* current page appears exactly once; (20, 10, 5) gives
\* [1, ellipsis, 8, 9, 10, 11, 12, ellipsis, 20].
C4_WindowedList ==
    pl.totalPages > pl.visibleCount + 2 =>
        LET T == pl.totalPages
            v == pl.visibleCount
            ps == pl.pages
        IN  /\ v \in {1, 3, 5, 7}
            /\ \E left \in 2..(T - 1) :
                  /\ left + v - 1 <= T - 1
                  /\ ps = <<Page(1)>>
                          \o (IF left > 2 THEN <<LeftEllipsis>> ELSE <<>>)
                          \o [i \in 1..v |-> Page(left + i - 1)]
                          \o (IF left + v - 1 < T - 1 THEN <<RightEllipsis>> ELSE <<>>)
                          \o <<Page(T)>>
            /\ \A j, k \in DOMAIN ps :
                  (j < k /\ "page" \in DOMAIN ps[j] /\ "page" \in DOMAIN ps[k])
                      => ps[j].page < ps[k].page
            /\ Cardinality({k \in DOMAIN ps : ps[k] = Page(pl.page)}) = 1
            /\ ((T = 20 /\ pl.page = 10 /\ v = 5)
                  => ps = <<Page(1), LeftEllipsis, Page(8), Page(9), Page(10), Page(11),
                            Page(12), RightEllipsis, Page(20)>>)

\* the list for 20 pages, page 10 and 5 visible has been rendered
C4_Witness ==
    /\ pl.totalPages = 20
    /\ pl.page = 10
    /\ pl.visibleCount = 5
    /\ Len(pl.pages) = 9

\* C5: for totalPages <= visible + 2 the list is 1, 2, ..., totalPages with
\* no ellipsis, whatever the current page.
C5_AllPagesShown ==
    pl.totalPages <= pl.visibleCount + 2 =>
        /\ Len(pl.pages) = pl.totalPages
        /\ \A k \in 1..pl.totalPages : pl.pages[k] = Page(k)

\* five pages with seven visible, on a page other than the first
C5_Witness ==
    /\ pl.totalPages = 5
    /\ pl.visibleCount = 7
    /\ pl.page = 4
    /\ pl.pages = <<Page(1), Page(2), Page(3), Page(4), Page(5)>>

\* ----------------------------------------------------- error middleware

\* notFound: the error handed to next() for a request no route matches
notFound == [message |-> "Route Not Found", status |-> Num(404)]

\* an error handler that answers 500 whatever the error carries
errorHandlerAlways500(err) == [status |-> 500, body |-> [error |-> err.message]]

\* an error handler that sends the message under another key
errorHandlerMessageKey(err) ==
    [status |-> IF err.status = Undef \/ err.status = Num(0) THEN 500 ELSE err.status.n,
     body |-> [message |-> err.message]]

\* errorHandler: status = err.status || 500, body { error: err.message }
errorHandler(err) ==
    [status |-> IF err.status = Undef \/ err.status = Num(0) THEN 500 ELSE err.status.n,
     body |-> [error |-> err.message]]

\* the response of a handler that forwards err with next(err)
Forwarded(err) == errorHandler(err)

\* ------------------------------------------------- the item store routes

\* the file the server starts with
SampleData == <<Item(1, <<"a">>, <<"a">>, 10), Item(2, <<"B">>, <<"b">>, 20)>>

\* Date.now() when the server starts: later than every id of the sample
StartTime == Len(SampleData) + 1

\* the bodies clients post
PostBodies ==
    {[name |-> <<"A", "b">>, category |-> <<"a">>, price |-> 30],
     [name |-> <<"a">>, category |-> <<"b">>, price |-> 10]}

\* the errors fs.promises.readFile and JSON.parse reject with: no status
ReadErrors == {[message |-> "ENOENT", status |-> Undef]}

\* the error GET /api/items/:id forwards when no item has the id
ItemNotFound == [message |-> "Item not found", status |-> Num(404)]

IdleHandler == [pc |-> "idle"]

\* const item = req.body; item.id = Date.now()
NewItem(body, now) ==
    [id |-> now, name |-> body.name, category |-> body.category, price |-> body.price]

\* a write that puts the new item first
PushedFirst(data, item) == <<item>> \o data

\* data.push(item)
Pushed(data, item) == Append(data, item)

\* Array.prototype.find(i => i.id === id): the first match, or Undef
FindById(data, id) ==
    IF \E i \in 1..Len(data) : data[i].id = id
    THEN data[CHOOSE i \in 1..Len(data) :
                /\ data[i].id = id
                /\ \A j \in 1..(i - 1) : data[j].id # id]
    ELSE Undef

\* the clock advances by a millisecond
Tick ==
    /\ clock < StartTime + MaxTicks
    /\ clock' = clock + 1
    /\ UNCHANGED <<file, posts, req, resp, pl, uiVars>>

\* POST /api/items, up to the write: readData() resolves with the file as it
\* is, the item gets its id and is pushed, writeData(data) is issued
PostRead(r, body) ==
    /\ posts[r].pc = "idle"
    /\ posts' = [posts EXCEPT ![r] =
                    [pc |-> "write", body |-> body, now |-> clock, read |-> file,
                     item |-> NewItem(body, clock),
                     data |-> Pushed(file, NewItem(body, clock))]]
    /\ UNCHANGED <<file, clock, req, resp, pl, uiVars>>

\* POST /api/items: readData() rejects and the error is forwarded
PostReadFails(r, body, err) ==
    /\ posts[r].pc = "idle"
    /\ posts' = [posts EXCEPT ![r] = [pc |-> "done", status |-> Forwarded(err).status]]
    /\ req' = [route |-> "create", body |-> body, err |-> err]
    /\ resp' = Forwarded(err)
    /\ UNCHANGED <<file, clock, pl, uiVars>>

\* the handler's answer, kept once it is sent
Answered(r) ==
    [pc |-> "done", status |-> 201, read |-> posts[r].read, item |-> posts[r].item]

\* a POST whose write would start from the file as it is at the write
PostWriteSerialized(r) ==
    /\ posts[r].pc = "write"
    /\ file' = Pushed(file, posts[r].item)
    /\ posts' = [posts EXCEPT ![r] = Answered(r)]
    /\ req' = [route |-> "create", body |-> posts[r].body, now |-> posts[r].now,
               read |-> posts[r].read]
    /\ resp' = [status |-> 201, body |-> posts[r].item]
    /\ UNCHANGED <<clock, pl, uiVars>>

\* POST /api/items, from the write on: the file is rewritten with the
\* handler's data and the item is sent with 201
PostWrite(r) ==
    /\ posts[r].pc = "write"
    /\ file' = posts[r].data
    /\ posts' = [posts EXCEPT ![r] = Answered(r)]
    /\ req' = [route |-> "create", body |-> posts[r].body, now |-> posts[r].now,
               read |-> posts[r].read]
    /\ resp' = [status |-> 201, body |-> posts[r].item]
    /\ UNCHANGED <<clock, pl, uiVars>>

\* GET /api/items/:id
GetItem(id) ==
    LET item == FindById(file, ParseInt(Str(DecString(id))))
    IN  /\ req' = IF item = Undef
                  THEN [route |-> "item", id |-> id, read |-> file, err |-> ItemNotFound]
                  ELSE [route |-> "item", id |-> id, read |-> file]
        /\ resp' = IF item = Undef THEN Forwarded(ItemNotFound)
                   ELSE [status |-> 200, body |-> item]
        /\ UNCHANGED <<file, clock, posts, pl, uiVars>>

\* GET /api/items/:id when readData() rejects
GetItemFails(id, err) ==
    /\ req' = [route |-> "item", id |-> id, read |-> file, err |-> err]
    /\ resp' = Forwarded(err)
    /\ UNCHANGED <<file, clock, posts, pl, uiVars>>

\* a request no route matches: notFound, then errorHandler
UnmatchedRoute ==
    /\ req' = [route |-> "unmatched", err |-> notFound]
    /\ resp' = Forwarded(notFound)
    /\ UNCHANGED <<file, clock, posts, pl, uiVars>>

InitStore ==
    /\ file = SampleData
    /\ clock = StartTime
    /\ posts = [r \in 1..MaxPosts |-> IdleHandler]
    /\ req = NoRequest
    /\ resp = NoResponse
    /\ pl = <<>>
    /\ UiIdle

NextStore ==
    \/ Tick
    \/ \E r \in 1..MaxPosts, body \in PostBodies : PostRead(r, body)
    \/ \E r \in 1..MaxPosts, body \in PostBodies, err \in ReadErrors :
          PostReadFails(r, body, err)
    \/ \E r \in 1..MaxPosts : PostWrite(r)
    \/ \E id \in 1..(StartTime + MaxTicks + 1) : GetItem(id)
    \/ \E id \in 1..(StartTime + MaxTicks + 1), err \in ReadErrors : GetItemFails(id, err)
    \/ UnmatchedRoute

SpecStore == InitStore /\ [][NextStore]_vars

\* ------------------------------------------------------------ C6 to C9

\* C6: after any sequence of POST /api/items requests, under any
\* non-decreasing clock, the ids of the stored items are pairwise distinct.
C6_DistinctIds ==
    \A i, j \in 1..Len(file) : i # j => file[i].id # file[j].id

\* C7: a successful POST /api/items answers 201 with the submitted name,
\* category and price plus the id the server assigned, and rewrites the
\* file to the collection it read with the new item appended at the end:
\* every entry it read keeps its position and its field values.
C7_CreateAppends ==
    (req.route = "create" /\ resp.status = 201) =>
        /\ resp.body = [id |-> req.now, name |-> req.body.name,
                        category |-> req.body.category, price |-> req.body.price]
        /\ Len(file) = Len(req.read) + 1
        /\ \A i \in 1..Len(req.read) : file[i] = req.read[i]
        /\ file[Len(file)] = resp.body

\* a second item has been created and the file holds both
C7_Witness ==
    /\ req.route = "create"
    /\ resp.status = 201
    /\ Len(req.read) = Len(SampleData) + 1
    /\ Len(file) = Len(SampleData) + 2

\* C8: GET /api/items/:id answers 200 with the stored item whose id is :id
\* when there is one, and 404 with a body holding an error field when there
\* is none; the store is left as it was.
C8_ItemById ==
    (req.route = "item" /\ ~("err" \in DOMAIN req /\ req.err \in ReadErrors)) =>
        /\ (\E i \in 1..Len(req.read) : req.read[i].id = req.id)
              => /\ resp.status = 200
                 /\ resp.body.id = req.id
                 /\ \E i \in 1..Len(req.read) : req.read[i] = resp.body
        /\ (\A i \in 1..Len(req.read) : req.read[i].id # req.id)
              => /\ resp.status = 404
                 /\ "error" \in DOMAIN resp.body
        /\ file = req.read

\* an id no item has was asked for after an item had been created
C8_Witness ==
    /\ req.route = "item"
    /\ Len(req.read) > Len(SampleData)
    /\ \A i \in 1..Len(req.read) : req.read[i].id # req.id
    /\ resp.status = 404

\* C9: a request no route matches ends with 404 {error: 'Route Not Found'};
\* an error a handler forwards ends with err.status when it is set and 500
\* otherwise, with body {error: err.message}; no error path answers 2xx.
C9_ErrorResponses ==
    /\ req.route = "unmatched"
          => resp = [status |-> 404, body |-> [error |-> "Route Not Found"]]
    /\ "err" \in DOMAIN req
          => /\ resp.status = IF req.err.status # Undef THEN req.err.status.n ELSE 500
             /\ resp.body = [error |-> req.err.message]
             /\ resp.status \notin 200..299

\* a request that matched no route has been answered
C9_Witness ==
    /\ req.route = "unmatched"
    /\ resp.status = 404

\* ------------------------------------------------- the fetch lifecycle

ItemsLimit == 10

\* what fetch and res.json() reject with
AbortError == [name |-> "AbortError", message |-> "Aborted"]
FetchErrors ==
    {[name |-> "TypeError", message |-> "Failed to fetch"], [name |-> "Error", message |-> ""]}
JsonErrors == {[name |-> "SyntaxError", message |-> "Unexpected token"]}
NullRead == [name |-> "TypeError", message |-> "Cannot read properties of null"]
NoError == [name |-> "none", message |-> ""]

\* the item ids of the detail route, and the statuses and bodies the server
\* or a proxy can answer GET /api/items/:id with
DetailIds == {1, 2}
DetailStatuses == {200, 404, 500}
DetailBodies(id) ==
    {Obj([id |-> id, name |-> <<"a">>]), Arr(<<>>), Null, Str(<<"o", "k">>)}

\* the bodies GET /api/items can be answered with for page p: a page
\* result, a bare array, an error envelope, null
ListTotals == {0, 25}
ListBodies(p) ==
    {Obj([data |-> Arr(<<p>>), total |-> Num(n)]) : n \in ListTotals}
    \cup {Arr(<<p, p>>), Obj([error |-> Text("ENOENT")]), Null}

\* the setter calls of one continuation: none yet
NoCalls ==
    [setNotFound |-> FALSE, setItem |-> Undef, setError |-> Undef, setLoading |-> FALSE,
     setItems |-> Undef, setTotal |-> Undef]

\* const controller = new AbortController(); the request it is handed to
NewRequest(owner, arg) ==
    [owner |-> owner, inst |-> inst', arg |-> arg, pc |-> "fetch",
     aborted |-> FALSE, abortedAt |-> "none", rejected |-> NoError,
     outcome |-> "pending", logged |-> FALSE, made |-> NoCalls,
     status |-> 0, body |-> Undef, after |-> <<>>]

\* controller.abort() of the effect that ran last, if any
AbortLast(rs) ==
    IF rs = <<>> \/ rs[Len(rs)].aborted THEN rs
    ELSE [rs EXCEPT ![Len(rs)].aborted = TRUE, ![Len(rs)].abortedAt = rs[Len(rs)].pc]

\* the component instance request r belongs to is still mounted
Alive(r) == reqs[r].inst = inst /\ view # "none"

\* the record of setter calls made by request r's continuation; setItems
\* and setTotal are the DataProvider's, mounted as long as the application is
Called(r, setters) ==
    {[owner |-> reqs[r].owner, inst |-> reqs[r].inst, setter |-> st,
      mounted |-> IF st \in {"setItems", "setTotal"} THEN view # "none" ELSE Alive(r),
      aborted |-> reqs[r].aborted, alive |-> Alive(r)] : st \in setters}

\* the setters an effect calls itself, before the fetch
CalledByEffect(owner, setters) ==
    {[owner |-> owner, inst |-> inst', setter |-> st, mounted |-> TRUE, aborted |-> FALSE,
      alive |-> TRUE] : st \in setters}

\* ---- ItemDetail

\* useState initial values, then the synchronous part of load()
DetailMounted(id) ==
    [id |-> id, item |-> Null, loading |-> TRUE, error |-> Null, notFound |-> FALSE]

\* a finally block that does not look at the signal
loadFinallyUnchecked(c, aborted) == [c EXCEPT !.setLoading = TRUE]

\* finally { if (signal && signal.aborted) return; setLoading(false); }
loadFinally(c, aborted) == IF aborted THEN c ELSE [c EXCEPT !.setLoading = TRUE]

\* a catch block that swallows every error
loadCatchSilent(err) == NoCalls

\* catch (err) { if (err.name === 'AbortError') return; setError(...) }
loadCatch(err) ==
    IF err.name = "AbortError" THEN NoCalls
    ELSE [NoCalls EXCEPT
            !.setError = Text(IF err.message # "" THEN err.message ELSE "Unknown error")]

\* load() from the fetch response on, for a response whose body is not read
loadStatus(status) ==
    IF status = 404 THEN [NoCalls EXCEPT !.setNotFound = TRUE]
    ELSE loadCatch([name |-> "Error", message |-> "Failed to load item"])

\* load() from the parsed body on
loadBody(json) ==
    IF ~Truthy(json) \/ TypeOf(json) # "object"
    THEN [NoCalls EXCEPT !.setError = Text("Invalid item data received")]
    ELSE [NoCalls EXCEPT !.setItem = json]

\* the names of the setters a continuation called
SettersOf(c) ==
    (IF c.setNotFound THEN {"setNotFound"} ELSE {})
    \cup (IF c.setItem # Undef THEN {"setItem"} ELSE {})
    \cup (IF c.setError # Undef THEN {"setError"} ELSE {})
    \cup (IF c.setLoading THEN {"setLoading"} ELSE {})
    \cup (IF c.setItems # Undef THEN {"setItems"} ELSE {})
    \cup (IF c.setTotal # Undef THEN {"setTotal"} ELSE {})

\* the state of ItemDetail after the calls c
DetailAfter(d, c) ==
    [id |-> d.id,
     item |-> IF c.setItem # Undef THEN c.setItem ELSE d.item,
     loading |-> IF c.setLoading THEN FALSE ELSE d.loading,
     error |-> IF c.setError # Undef THEN c.setError ELSE d.error,
     notFound |-> IF c.setNotFound THEN TRUE ELSE d.notFound]

\* request r of ItemDetail settles: its continuation made the calls c
DetailSettles(r, c, err, outcome, status, body) ==
    /\ detailState' = IF Alive(r) THEN DetailAfter(detailState, c) ELSE detailState
    /\ reqs' = [reqs EXCEPT ![r].pc = "done", ![r].rejected = err,
                            ![r].outcome = outcome, ![r].made = c,
                            ![r].status = status, ![r].body = body,
                            ![r].after = detailState']
    /\ calls' = calls \cup Called(r, SettersOf(c))
    /\ UNCHANGED <<view, inst, itemsState, provider, backVars, pl>>

\* fetch resolves: 404 and other non-OK statuses end load(), 200 goes on
\* to read the body
DetailFetchResolves(r, status) ==
    /\ reqs[r].owner = "ItemDetail"
    /\ reqs[r].pc = "fetch"
    /\ ~reqs[r].aborted
    /\ IF status = 200
       THEN /\ reqs' = [reqs EXCEPT ![r].pc = "json", ![r].status = status]
            /\ UNCHANGED <<view, inst, itemsState, provider, detailState, calls, backVars, pl>>
       ELSE DetailSettles(r, loadFinally(loadStatus(status), reqs[r].aborted),
                          NoError, "returned", status, Undef)

\* fetch rejects: with AbortError once the signal is aborted, with a
\* network error before
DetailFetchRejects(r, err) ==
    /\ reqs[r].owner = "ItemDetail"
    /\ reqs[r].pc = "fetch"
    /\ reqs[r].aborted <=> err = AbortError
    /\ DetailSettles(r, loadFinally(loadCatch(err), reqs[r].aborted), err, "caught",
                     reqs[r].status, Undef)

\* res.json() resolves; a body that was already received is parsed whether
\* or not the signal has been aborted since
DetailJsonResolves(r, json) ==
    /\ reqs[r].owner = "ItemDetail"
    /\ reqs[r].pc = "json"
    /\ DetailSettles(r, loadFinally(loadBody(json), reqs[r].aborted), NoError, "returned",
                     reqs[r].status, json)

\* res.json() rejects: with AbortError once aborted, with a parse error before
DetailJsonRejects(r, err) ==
    /\ reqs[r].owner = "ItemDetail"
    /\ reqs[r].pc = "json"
    /\ reqs[r].aborted <=> err = AbortError
    /\ DetailSettles(r, loadFinally(loadCatch(err), reqs[r].aborted), err, "caught",
                     reqs[r].status, Undef)

\* the id of the route changes: cleanup of the effect, then load() again
DetailIdChanges(id) ==
    /\ view = "detail"
    /\ id # detailState.id
    /\ Len(reqs) < MaxRequests
    /\ inst' = inst
    /\ detailState' = [detailState EXCEPT !.id = id, !.loading = TRUE, !.error = Null,
                                          !.notFound = FALSE]
    /\ reqs' = Append(AbortLast(reqs), NewRequest("ItemDetail", id))
    /\ calls' = calls \cup CalledByEffect("ItemDetail", {"setLoading", "setError", "setNotFound"})
    /\ UNCHANGED <<view, itemsState, provider, backVars, pl>>

\* ---- Items and the DataProvider

\* useState initial values, then the effect's setLoading(true)
ItemsMounted(w) == [page |-> 1, loading |-> TRUE, visibleCount |-> VisibleFor(w)]

ProviderMounted == [items |-> Arr(<<>>), total |-> Num(0)]

\* json.data, json.total: undefined on an array or when the key is missing
Prop(json, key) ==
    IF json.t = "obj" /\ key \in DOMAIN json.o THEN json.o[key] ELSE Undef

\* a || b
Or(a, b) == IF Truthy(a) THEN a ELSE b

\* setItems(json.data || json); setTotal(json.total || (isArray ? length : 0))
fetchItemsBody(json) ==
    [NoCalls EXCEPT
        !.setItems = Or(Prop(json, "data"), json),
        !.setTotal = Or(Prop(json, "total"),
                        IF json.t = "arr" THEN Num(Len(json.a)) ELSE Num(0))]

\* a catch callback that logs whatever it is given
itemsCatchLogsAll(err) == TRUE

\* .catch((err) => { if (err && err.name === 'AbortError') return; console.error(err) })
itemsCatch(err) == err.name # "AbortError"

\* a chain without the finally step
itemsFinallySkipped(c, aborted) == c

\* .finally(() => { if (signal.aborted) return; setLoading(false) })
itemsFinally(c, aborted) == IF aborted THEN c ELSE [c EXCEPT !.setLoading = TRUE]

\* Math.max(1, Math.ceil((total || 0) / limit))
totalPages ==
    LET n == ToNumber(Or(provider.total, Num(0)))
    IN  Max(1, (n + ItemsLimit - 1) \div ItemsLimit)

\* request r of Items settles: its continuation made the calls c
ItemsSettles(r, c, err) ==
    /\ provider' = IF view = "none" THEN provider
                   ELSE [items |-> IF c.setItems # Undef THEN c.setItems ELSE provider.items,
                         total |-> IF c.setTotal # Undef THEN c.setTotal ELSE provider.total]
    /\ itemsState' = IF Alive(r) /\ c.setLoading
                     THEN [itemsState EXCEPT !.loading = FALSE] ELSE itemsState
    /\ reqs' = [reqs EXCEPT ![r].pc = "done", ![r].rejected = err,
                            ![r].outcome = IF err = NoError THEN "returned" ELSE "caught",
                            ![r].logged = IF err = NoError THEN FALSE ELSE itemsCatch(err),
                            ![r].made = c]
    /\ calls' = calls \cup Called(r, SettersOf(c))
    /\ UNCHANGED <<view, inst, detailState, backVars, pl>>

\* fetch resolves; fetchItems reads the body whatever the status is
ItemsFetchResolves(r) ==
    /\ reqs[r].owner = "Items"
    /\ reqs[r].pc = "fetch"
    /\ ~reqs[r].aborted
    /\ reqs' = [reqs EXCEPT ![r].pc = "json"]
    /\ UNCHANGED <<view, inst, itemsState, provider, detailState, calls, backVars, pl>>

ItemsFetchRejects(r, err) ==
    /\ reqs[r].owner = "Items"
    /\ reqs[r].pc = "fetch"
    /\ reqs[r].aborted <=> err = AbortError
    /\ ItemsSettles(r, itemsFinally(NoCalls, reqs[r].aborted), err)

\* res.json() resolves; reading json.data of null throws
ItemsJsonResolves(r, json) ==
    /\ reqs[r].owner = "Items"
    /\ reqs[r].pc = "json"
    /\ IF json = Null
       THEN ItemsSettles(r, itemsFinally(NoCalls, reqs[r].aborted), NullRead)
       ELSE ItemsSettles(r, itemsFinally(fetchItemsBody(json), reqs[r].aborted), NoError)

ItemsJsonRejects(r, err) ==
    /\ reqs[r].owner = "Items"
    /\ reqs[r].pc = "json"
    /\ reqs[r].aborted <=> err = AbortError
    /\ ItemsSettles(r, itemsFinally(NoCalls, reqs[r].aborted), err)

\* goToPage(p) from a button of the nav that is rendered and enabled
ItemsGoToPage(p) ==
    /\ view = "items"
    /\ \/ p = itemsState.page - 1 /\ itemsState.page # 1
       \/ p = itemsState.page + 1 /\ itemsState.page # totalPages
       \/ p \in PageNumbers(getPageList(totalPages, itemsState.page, itemsState.visibleCount))
    /\ IF p < 1 \/ p > totalPages \/ p = itemsState.page
       THEN UNCHANGED uiVars
       ELSE /\ Len(reqs) < MaxRequests
            /\ inst' = inst
            /\ itemsState' = [itemsState EXCEPT !.page = p, !.loading = TRUE]
            /\ reqs' = Append(AbortLast(reqs), NewRequest("Items", p))
            /\ calls' = calls \cup CalledByEffect("Items", {"setLoading"})
            /\ UNCHANGED <<view, provider, detailState>>
    /\ UNCHANGED <<backVars, pl>>

\* the resize listener of Items
ItemsResize(w) ==
    /\ view = "items"
    /\ itemsState' = [itemsState EXCEPT !.visibleCount = VisibleFor(w)]
    /\ UNCHANGED <<view, inst, provider, detailState, reqs, calls, backVars, pl>>

\* ---- navigation

\* a link of the list is followed: Items unmounts, ItemDetail mounts
OpenItem(id) ==
    /\ view = "items"
    /\ Len(reqs) < MaxRequests
    /\ view' = "detail"
    /\ inst' = inst + 1
    /\ itemsState' = <<>>
    /\ detailState' = DetailMounted(id)
    /\ reqs' = Append(AbortLast(reqs), NewRequest("ItemDetail", id))
    /\ calls' = calls \cup CalledByEffect("ItemDetail", {"setLoading", "setError", "setNotFound"})
    /\ UNCHANGED <<provider, backVars, pl>>

\* back to the list: ItemDetail unmounts, Items mounts
BackToItems(w) ==
    /\ view = "detail"
    /\ Len(reqs) < MaxRequests
    /\ view' = "items"
    /\ inst' = inst + 1
    /\ itemsState' = ItemsMounted(w)
    /\ detailState' = <<>>
    /\ reqs' = Append(AbortLast(reqs), NewRequest("Items", 1))
    /\ calls' = calls \cup CalledByEffect("Items", {"setLoading"})
    /\ UNCHANGED <<provider, backVars, pl>>

\* the whole tree is unmounted
Unmount ==
    /\ view # "none"
    /\ view' = "none"
    /\ reqs' = AbortLast(reqs)
    /\ UNCHANGED <<inst, itemsState, provider, detailState, calls, backVars, pl>>

BackIdle ==
    /\ file = <<>>
    /\ clock = 0
    /\ posts = <<>>
    /\ req = NoRequest
    /\ resp = NoResponse
    /\ pl = <<>>

\* the application opened on the list or on an item
InitUI ==
    /\ BackIdle
    /\ inst = 1
    /\ provider = ProviderMounted
    /\ calls = {}
    /\ \/ /\ view = "items"
          /\ \E w \in Widths : itemsState = ItemsMounted(w)
          /\ detailState = <<>>
          /\ reqs = <<[owner |-> "Items", inst |-> 1, arg |-> 1, pc |-> "fetch",
                       aborted |-> FALSE, abortedAt |-> "none", rejected |-> NoError,
                       outcome |-> "pending", logged |-> FALSE, made |-> NoCalls,
                       status |-> 0, body |-> Undef, after |-> <<>>]>>
       \/ /\ view = "detail"
          /\ itemsState = <<>>
          /\ \E id \in DetailIds :
                /\ detailState = DetailMounted(id)
                /\ reqs = <<[owner |-> "ItemDetail", inst |-> 1, arg |-> id, pc |-> "fetch",
                             aborted |-> FALSE, abortedAt |-> "none", rejected |-> NoError,
                             outcome |-> "pending", logged |-> FALSE, made |-> NoCalls,
                             status |-> 0, body |-> Undef, after |-> <<>>]>>

NextUI ==
    \/ \E r \in 1..Len(reqs), status \in DetailStatuses : DetailFetchResolves(r, status)
    \/ \E r \in 1..Len(reqs), err \in FetchErrors \cup {AbortError} : DetailFetchRejects(r, err)
    \/ \E r \in 1..Len(reqs) : \E json \in DetailBodies(reqs[r].arg) : DetailJsonResolves(r, json)
    \/ \E r \in 1..Len(reqs), err \in JsonErrors \cup {AbortError} : DetailJsonRejects(r, err)
    \/ \E id \in DetailIds : DetailIdChanges(id)
    \/ \E r \in 1..Len(reqs) : ItemsFetchResolves(r)
    \/ \E r \in 1..Len(reqs), err \in FetchErrors \cup {AbortError} : ItemsFetchRejects(r, err)
    \/ \E r \in 1..Len(reqs) : \E json \in ListBodies(reqs[r].arg) : ItemsJsonResolves(r, json)
    \/ \E r \in 1..Len(reqs), err \in JsonErrors \cup {AbortError} : ItemsJsonRejects(r, err)
    \/ \E p \in 0..(MaxRequests + 1) : ItemsGoToPage(p)
    \/ \E w \in Widths : ItemsResize(w)
    \/ \E id \in DetailIds : OpenItem(id)
    \/ \E w \in Widths : BackToItems(w)
    \/ Unmount

SpecUI == InitUI /\ [][NextUI]_vars

\* ----------------------------------------------------------- C2 and C10

\* component instance i has been unmounted
Unmounted(i) == i < inst \/ view = "none"

RequestsOf(i) == {r \in 1..Len(reqs) : reqs[r].inst = i}

\* instance i was unmounted while the fetch of its last request was pending,
\* and none of its earlier requests was aborted after its fetch had resolved
UnmountedWhileFetching(i) ==
    /\ Unmounted(i)
    /\ \E r \in RequestsOf(i) :
          /\ \A q \in RequestsOf(i) : q <= r
          /\ reqs[r].abortedAt = "fetch"
    /\ \A r \in RequestsOf(i) : reqs[r].abortedAt # "json"

ComponentSetters == {"setLoading", "setItem", "setError", "setNotFound"}

C10_AbortErrorExpected ==
    \A r \in 1..Len(reqs) :
        reqs[r].rejected # NoError =>
            /\ reqs[r].outcome = "caught"
            /\ reqs[r].owner = "Items"
                  => (reqs[r].logged <=> reqs[r].rejected.name # "AbortError")
            /\ reqs[r].owner = "ItemDetail"
                  => IF reqs[r].rejected.name = "AbortError"
                     THEN reqs[r].made.setError = Undef
                     ELSE /\ reqs[r].made.setError # Undef
                          /\ reqs[r].made.setError.m # ""
                          /\ reqs[r].rejected.message # ""
                                => reqs[r].made.setError = Text(reqs[r].rejected.message)

\* Items' fetch was aborted and rejected, ItemDetail's fetch failed otherwise
C10_Witness ==
    \E r, q \in 1..Len(reqs) :
        /\ reqs[r].owner = "Items"
        /\ reqs[r].rejected = AbortError
        /\ reqs[q].owner = "ItemDetail"
        /\ reqs[q].rejected \in FetchErrors

\* ------------------------------------------------------------------ C14

\* the items of coll whose name contains q, in the order of coll
KeptInOrder(coll, q) ==
    LET kept == KeptPositions(coll, q)
    IN  [k \in 1..Cardinality(kept) |->
            coll[CHOOSE i \in kept : Cardinality({j \in kept : j < i}) = k - 1]]

RECURSIVE PagesFrom(_, _, _, _)
\* the data of pages p..last of the same query, one after the other
PagesFrom(coll, query, p, last) ==
    IF p > last THEN <<>>
    ELSE ListBody(coll, [query EXCEPT !.page = Str(DecString(p))]).data
            \o PagesFrom(coll, query, p + 1, last)

\* C14: the data of a page is the run of the filtered collection at the
\* positions (page-1)*limit up to (page-1)*limit + limit, in the order of the
\* collection; so the pages 1..ceil(total/limit) of one q and limit, put one
\* after the other, are the filtered collection, each item once.
C14_PagesPartition ==
    req.route = "list" =>
        LET filtered == KeptInOrder(req.read, req.query.q)
            limit == req.asked.limit
            lo == (req.asked.page - 1) * limit
            hi == Min(lo + limit, Len(filtered))
            lastPage == (resp.body.total + limit - 1) \div limit
        IN  /\ resp.body.data = IF lo >= hi THEN <<>>
                                ELSE [k \in 1..(hi - lo) |-> filtered[lo + k]]
            /\ PagesFrom(req.read, req.query, 1, lastPage) = filtered

\* page 2 of a two-item result asked with limit 1: the second item alone
C14_Witness ==
    /\ req.route = "list"
    /\ req.asked.limit = 1
    /\ req.asked.page = 2
    /\ resp.body.total = 2
    /\ resp.body.data = <<req.read[2]>>
    /\ req.read[1] # req.read[2]

\* ------------------------------------------------------------------ C12

\* the handlers that answered 201 after reading the collection `read`
Created(read) ==
    {r \in 1..MaxPosts : /\ posts[r].pc = "done"
                         /\ posts[r].status = 201
                         /\ posts[r].read = read}

\* C12: POST handlers are not serialized. When two of them read the same
\* collection and both answered 201, the file after the later write is that
\* collection plus the item of the last writer alone: two creations were
\* acknowledged and one item was added.
C12_LastWriterWins ==
    (/\ req.route = "create"
     /\ resp.status = 201
     /\ Cardinality(Created(req.read)) >= 2)
        => /\ file = Append(req.read, resp.body)
           /\ Len(file) = Len(req.read) + 1

\* both POSTs read the sample data, both answered 201 with different items,
\* and the file holds the sample data and the second writer's item only
C12_Witness ==
    /\ req.route = "create"
    /\ resp.status = 201
    /\ req.read = SampleData
    /\ \E r \in Created(SampleData) : \E q \in Created(SampleData) :
          /\ r # q
          /\ posts[r].item = resp.body
          /\ posts[q].item # resp.body
          /\ \A i \in 1..Len(file) : file[i] # posts[q].item
    /\ Len(file) = Len(SampleData) + 1

\* ------------------------------------------------------------------ C13

\* C13: every state mutation made by a fetch continuation (setItems and
\* setTotal in fetchItems; setNotFound, setItem, setError and setLoading in
\* ItemDetail's load; setLoading in Items) comes after a check of the abort
\* signal, so no setter is called by a request whose signal is aborted, also
\* when the abort falls between the fetch and a later step such as res.json().
C13_NoMutationAfterAbort ==
    \A c \in calls :
        c.setter \in {"setItems", "setTotal", "setNotFound", "setItem", "setError",
                      "setLoading"}
            => ~c.aborted

\* ------------------------------------------------------------------ C15

\* the ItemDetail requests whose response was handled to the end of load()
\* before the signal was aborted
Handled ==
    {r \in 1..Len(reqs) : /\ reqs[r].owner = "ItemDetail"
                          /\ reqs[r].pc = "done"
                          /\ reqs[r].abortedAt \in {"none", "done"}}

\* the parsed body of request r is null or not an object
InvalidBody(r) ==
    /\ reqs[r].status = 200
    /\ reqs[r].outcome = "returned"
    /\ reqs[r].body.t \notin {"obj", "arr"}

\* C15: in ItemDetail a 2xx response whose body is null or not an
\* object ends in the error state 'Invalid item data received' with item
\* unset and loading false; a 404 ends in the notFound state with no error
\* and no item; any other non-OK status ends in the error state 'Failed to
\* load item'; setItem is called in none of these cases.
C15_ErrorStates ==
    \A r \in Handled :
        LET after == reqs[r].after
        IN  /\ InvalidBody(r) =>
                /\ after.error = Text("Invalid item data received")
                /\ after.item = Null
                /\ ~after.loading
                /\ reqs[r].made.setItem = Undef
            /\ reqs[r].status = 404 =>
                /\ after.notFound
                /\ after.error = Null
                /\ after.item = Null
                /\ reqs[r].made.setItem = Undef
            /\ reqs[r].status \notin {0, 200, 404} =>
                /\ after.error = Text("Failed to load item")
                /\ reqs[r].made.setItem = Undef

\* ------------------------------------------------------------------ C16

\* C16: whatever the order of mount, id change, fetch resolution or failure,
\* abort and unmount, ItemDetail is never in the success view (loading false,
\* notFound false, error null) with item null, so item.name is never read
\* of a null item.
C16_NoSuccessViewWithoutItem ==
    view = "detail" =>
        ~(/\ ~detailState.loading
          /\ ~detailState.notFound
          /\ detailState.error = Null
          /\ detailState.item = Null)

\* the id changed while the first request was in flight, that request was
\* rejected with AbortError and the second one failed: the error view is
\* shown, with no item
C16_Witness ==
    /\ view = "detail"
    /\ Len(reqs) = 2
    /\ reqs[1].inst = inst
    /\ reqs[1].rejected = AbortError
    /\ reqs[2].pc = "done"
    /\ reqs[2].rejected \in FetchErrors
    /\ ~detailState.loading
    /\ detailState.error # Null
    /\ detailState.item = Null

\* ------------------------------------------------------------------ C17

\* C17: a change of page (Items) or id (ItemDetail) aborts the request in
\* flight before the next one is issued, so at most one request of a
\* component instance is not aborted, the response of an earlier request is
\* never applied to items, total or item after the change, and once every
\* request has settled the data shown is that of the latest page or id.
C17_LatestRequestOnly ==
    /\ \A r \in 1..Len(reqs) : \A q \in 1..Len(reqs) :
          (r < q /\ reqs[r].inst = reqs[q].inst) => reqs[r].aborted
    /\ \A c \in calls :
          (c.aborted /\ c.alive) => c.setter \notin {"setItems", "setTotal", "setItem"}
    /\ (/\ view = "detail"
        /\ \A r \in 1..Len(reqs) : reqs[r].pc = "done"
        /\ reqs[Len(reqs)].made.setItem # Undef)
            => detailState.item = reqs[Len(reqs)].made.setItem
    /\ (/\ view = "items"
        /\ \A r \in 1..Len(reqs) : reqs[r].pc = "done"
        /\ reqs[Len(reqs)].made.setItems # Undef)
            => /\ provider.items = reqs[Len(reqs)].made.setItems
               /\ provider.total = reqs[Len(reqs)].made.setTotal

\* ------------------------------------------------------------------ C18

\* the loading flag of the page component that is mounted
Loading == IF view = "items" THEN itemsState.loading ELSE detailState.loading

\* C18: while a component is mounted with its page or id fixed, the request
\* of that page or id is the one not aborted, loading is true as long as
\* that request has not settled and false once it has settled in any way
\* (success, 404, invalid body, failure other than abort); so loading stays
\* true for ever only if the request never settles.
C18_LoadingUntilSettled ==
    view # "none" =>
        LET r == Len(reqs)
        IN  /\ reqs[r].inst = inst
            /\ ~reqs[r].aborted
            /\ reqs[r].arg = (IF view = "items" THEN itemsState.page ELSE detailState.id)
            /\ Loading <=> reqs[r].pc # "done"

\* Items on page 2: the request of page 2 failed on a null body and loading
\* is false
C18_Witness ==
    /\ view = "items"
    /\ itemsState.page = 2
    /\ reqs[Len(reqs)].pc = "done"
    /\ reqs[Len(reqs)].rejected = NullRead
    /\ ~itemsState.loading

\* ------------------------------------------------------------------ C19

\* C19: in every reachable state the DataProvider's items is a sequence of
\* items and total is a non-negative integer, whatever JSON body the server
\* sends (a page result, a bare array, the error envelope {error} of a
\* non-2xx answer), so Items can always call items.map and compute
\* totalPages.
C19_ItemsIsSequence ==
    view # "none" =>
        /\ provider.items.t = "arr"
        /\ provider.total.t = "num"
        /\ provider.total.n >= 0

\* ------------------------------------------------------------------ C11

\* C11: in every reachable state of Items 1 <= page <= totalPages, with
\* totalPages = max(1, ceil(total/limit)); hence previous on page 1 and next
\* on the last page leave the page alone, any other previous or next click
\* moves it by exactly one, and goToPage(p) outside 1..totalPages does nothing.
C11_PageInRange ==
    view = "items" =>
        /\ 1 <= itemsState.page
        /\ itemsState.page <= totalPages

====
